---- MODULE Spec2Model ----
(***************************************************************************)
(* A model of app.py, the Flask application of Sustainable-Health-Engine:  *)
(* the numeric coercion safe_float, the metric calculator                  *)
(* calculate_metrics, the spreadsheet-backed store dashboard_inputs.xlsx,  *)
(* the submission handler index() and the view handler metrics().          *)
(***************************************************************************)
EXTENDS Integers, Sequences, FiniteSets, TLC

(***************************************************************************)
(* Python values.  A value is a str, a float (or int), None, or an empty   *)
(* spreadsheet cell.  A finite number is held exactly, in eighths          *)
(* (8.0 is 64); the three special floats inf, -inf and nan are classes of  *)
(* their own.  The int 0 and the float 0.0 are one value, as they are      *)
(* equal in Python.                                                        *)
(***************************************************************************)
Str(s) == [t |-> "str", s |-> s]
Fin(n) == [t |-> "float", cls |-> "fin", v |-> n]
Num(k) == Fin(k * 8)
PosInf == [t |-> "float", cls |-> "inf", v |-> 1]
NegInf == [t |-> "float", cls |-> "inf", v |-> -1]
NaN == [t |-> "float", cls |-> "nan", v |-> 0]
None == [t |-> "none"]
EmptyCell == [t |-> "empty"]
\* A str in the format '%Y-%m-%d %H:%M:%S', held by its six fields.
TsStr(d) == [t |-> "tsstr", dt |-> d]
\* A str in the format '%m-%d %H:%M', held by its four fields.
LabelStr(f) == [t |-> "labelstr", f |-> f]
\* The exception a call raised, in place of its value.
Raised == [t |-> "raised"]

IsFloat(x) == x.t = "float"
IsFinite(x) == IsFloat(x) /\ x.cls = "fin"
IsNaN(x) == IsFloat(x) /\ x.cls = "nan"
IsInf(x) == IsFloat(x) /\ x.cls = "inf"

(***************************************************************************)
(* IEEE-754 arithmetic as Python performs it on floats.                    *)
(***************************************************************************)
FNeg(a) == IF IsFinite(a) THEN Fin(0 - a.v)
           ELSE IF IsInf(a) THEN [a EXCEPT !.v = 0 - a.v]
           ELSE NaN

FAdd(a, b) ==
    IF IsNaN(a) \/ IsNaN(b) THEN NaN
    ELSE IF IsInf(a) /\ IsInf(b) THEN (IF a.v = b.v THEN a ELSE NaN)
    ELSE IF IsInf(a) THEN a
    ELSE IF IsInf(b) THEN b
    ELSE Fin(a.v + b.v)

FSub(a, b) == FAdd(a, FNeg(b))

\* x / 4: exact for every finite value the model holds (multiples of 4/8).
FDiv4(a) == IF IsFinite(a) THEN Fin(a.v \div 4) ELSE a

\* a > b; every comparison with nan is False.
FGt(a, b) ==
    IF IsNaN(a) \/ IsNaN(b) THEN FALSE
    ELSE IF IsInf(a) THEN a.v = 1 /\ ~(IsInf(b) /\ b.v = 1)
    ELSE IF IsInf(b) THEN b.v = -1
    ELSE a.v > b.v

\* a >= b as Python evaluates it.
FGe(a, b) == FGt(a, b) \/ (~IsNaN(a) /\ a = b)

\* The clamp left out.
PyMax0Identity(x) == x
\* The builtin max(0, x): x replaces 0 only when x > 0 is True.
PyMax0(x) == IF FGt(x, Num(0)) THEN x ELSE Num(0)

(***************************************************************************)
(* The builtin float() on the str values the model draws from.  Every      *)
(* other str raises ValueError; None raises TypeError.                     *)
(***************************************************************************)
FloatLiterals ==
    [s \in {"0", "1", "2", "3", "4", "5", "6", "8", "-2", "2.5", "200",
            "nan", "NaN", "inf", "-inf"} |->
        CASE s = "0" -> Num(0) [] s = "1" -> Num(1) [] s = "2" -> Num(2)
          [] s = "3" -> Num(3) [] s = "4" -> Num(4) [] s = "5" -> Num(5)
          [] s = "6" -> Num(6) [] s = "8" -> Num(8) [] s = "-2" -> Num(-2)
          [] s = "2.5" -> Fin(20) [] s = "200" -> Num(200)
          [] s = "nan" -> NaN [] s = "NaN" -> NaN
          [] s = "inf" -> PosInf [] s = "-inf" -> NegInf]

PyFloat(value) ==
    IF IsFloat(value) THEN value
    ELSE IF value.t = "str" /\ value.s \in DOMAIN FloatLiterals
         THEN FloatLiterals[value.s]
    ELSE Raised

\* safe_float(value), lines 29-36.
safe_float(value) ==
    IF value = Str("") \/ value = None \/ value = Str("nan") THEN Num(0)
    ELSE IF PyFloat(value) = Raised THEN Num(0) ELSE PyFloat(value)

(***************************************************************************)
(* Columns.                                                                *)
(***************************************************************************)
input_cols ==
    << "planned_study_time", "actual_study_time", "break_time", "personal_care",
       "active_tasks", "deadlines", "context_switches", "task_complexity",
       "stress", "fatigue", "exhaustion", "motivation",
       "sleep_duration", "sleep_quality", "holidays", "micro_breaks" >>

metric_cols ==
    << "time_poverty_index", "work_imbalance", "mental_strain",
       "recovery_deficit_score", "sustainability_score", "burnout_risk" >>

all_cols == input_cols \o metric_cols

numeric_cols ==
    { "planned_study_time", "actual_study_time", "active_tasks", "deadlines",
      "context_switches", "stress", "fatigue", "exhaustion",
      "sleep_duration", "micro_breaks" }

text_cols ==
    { "task_complexity", "sleep_quality", "holidays", "break_time",
      "personal_care", "motivation" }

Range(s) == { s[i] : i \in DOMAIN s }

\* dict.get(key): None when the key is absent.
DictGet(d, k) == IF k \in DOMAIN d THEN d[k] ELSE None

(***************************************************************************)
(* calculate_metrics(data)                                                 *)
(***************************************************************************)
Sum4(a, b, c, d) == FAdd(FAdd(FAdd(a, b), c), d)

recovery_deficit(n) ==
    FAdd(PyMax0(FSub(Num(8), n["sleep_duration"])),
         PyMax0(FSub(Num(3), n["micro_breaks"])))

\* The total divided by 2.
burnout_risk_halved(total) == FAdd(FDiv4(total), FDiv4(total))
\* Lines 73-74.
burnout_risk(total) == FDiv4(total)

calculate_metrics(data) ==
    LET n == [c \in numeric_cols |-> safe_float(DictGet(data, c))]
        tpi == FSub(n["planned_study_time"], n["actual_study_time"])
        wi == FAdd(FAdd(n["active_tasks"], n["deadlines"]), n["context_switches"])
        ms == FAdd(FAdd(n["stress"], n["fatigue"]), n["exhaustion"])
        rd == recovery_deficit(n)
        total == Sum4(tpi, wi, ms, rd)
    IN [c \in DOMAIN data \cup numeric_cols \cup text_cols \cup Range(metric_cols) |->
          CASE c \in numeric_cols -> n[c]
            [] c = "time_poverty_index" -> tpi
            [] c = "work_imbalance" -> wi
            [] c = "mental_strain" -> ms
            [] c = "recovery_deficit_score" -> rd
            [] c = "sustainability_score" -> PyMax0(FSub(Num(100), total))
            [] c = "burnout_risk" -> burnout_risk(total)
            [] c \in text_cols -> IF c \in DOMAIN data THEN data[c] ELSE Str("")
            [] OTHER -> data[c]]


(***************************************************************************)
(* DataFrames and the backing file FILE_PATH.                              *)
(*                                                                         *)
(* A DataFrame is its column names, its index labels and its rows (one     *)
(* function from column name to value per row).  The file is absent, or    *)
(* holds a header and rows of cells.                                       *)
(***************************************************************************)
NoFile == [exists |-> FALSE, cols |-> << >>, rows |-> << >>]

RangeIndex(n) == [i \in 1..n |-> i - 1]

\* pd.DataFrame(columns=all_cols)
EmptyFrame == [cols |-> all_cols, index |-> << >>, rows |-> << >>]

\* DataFrame.to_excel writes nan, None and '' as an empty cell and an
\* infinity as the text 'inf' or '-inf' (na_rep='', inf_rep='inf').
WriteCell(v) ==
    IF v = None \/ v = Str("") \/ IsNaN(v) THEN EmptyCell
    ELSE IF IsInf(v) THEN (IF v.v = 1 THEN Str("inf") ELSE Str("-inf"))
    ELSE v

\* pd.read_excel reads an empty cell as nan.
ReadCell(c) == IF c = EmptyCell THEN NaN ELSE c

WriteRow(cols, row) == [c \in Range(cols) |-> WriteCell(row[c])]
ReadRow(cols, cells) == [c \in Range(cols) |-> ReadCell(cells[c])]

\* df.to_excel(FILE_PATH, index=False): the whole file is replaced.
to_excel(df) ==
    [exists |-> TRUE, cols |-> df.cols,
     rows |-> [i \in 1..Len(df.rows) |-> WriteRow(df.cols, df.rows[i])]]

\* pd.read_excel(FILE_PATH) of a readable file.
read_excel(f) ==
    [cols |-> f.cols, index |-> RangeIndex(Len(f.rows)),
     rows |-> [i \in 1..Len(f.rows) |-> ReadRow(f.cols, f.rows[i])]]

\* try: pd.read_excel(FILE_PATH) / except: pd.DataFrame(columns=all_cols).
\* The read raises when the file is absent, and when it cannot be read.
read_table(f, readable) ==
    IF f.exists /\ readable THEN read_excel(f) ELSE EmptyFrame

\* The keys of the dict index() hands to pd.DataFrame([data]), in insertion
\* order: the sixteen form fields, the timestamp, the six metrics.
new_row_cols == input_cols \o << "timestamp" >> \o metric_cols

Widen(cols, row) == [c \in Range(cols) |-> IF c \in DOMAIN row THEN row[c] ELSE NaN]

\* The new row put first.
pd_concat_front(df, data) ==
    LET cols == df.cols \o SelectSeq(new_row_cols, LAMBDA c : c \notin Range(df.cols))
    IN [cols |-> cols, index |-> RangeIndex(Len(df.rows) + 1),
        rows |-> << Widen(cols, data) >> \o
                 [i \in 1..Len(df.rows) |-> Widen(cols, df.rows[i])]]
\* pd.concat([df, pd.DataFrame([data])], ignore_index=True)
pd_concat(df, data) ==
    LET cols == df.cols \o SelectSeq(new_row_cols, LAMBDA c : c \notin Range(df.cols))
    IN [cols |-> cols, index |-> RangeIndex(Len(df.rows) + 1),
        rows |-> [i \in 1..Len(df.rows) |-> Widen(cols, df.rows[i])] \o
                 << Widen(cols, data) >>]

\* The file created whether it exists or not.
create_always(f) == to_excel(EmptyFrame)
\* Lines 26-27: the file is created, header only, when it does not exist.
create_if_absent(f) == IF ~f.exists THEN to_excel(EmptyFrame) ELSE f


(***************************************************************************)
(* The history of metrics(): window, timestamps, sort, chart arrays.       *)
(***************************************************************************)
HistoryWindow == 20

\* The first rows in place of the last.
tail_head(df) ==
    LET n == IF Len(df.rows) < HistoryWindow THEN Len(df.rows) ELSE HistoryWindow
    IN [cols |-> df.cols, index |-> SubSeq(df.index, 1, n), rows |-> SubSeq(df.rows, 1, n)]
\* df.tail(20): the last rows, with the index labels they had in df.
tail(df) ==
    LET n == Len(df.rows)
        lo == IF n > HistoryWindow THEN n - HistoryWindow + 1 ELSE 1
    IN [cols |-> df.cols, index |-> SubSeq(df.index, lo, n), rows |-> SubSeq(df.rows, lo, n)]

Datetime(d) == [t |-> "datetime", dt |-> d]
NaT == [t |-> "nat"]

\* The range started a day late.
date_range_from_2(n) == [i \in 1..n |-> Datetime(<< 2026, 1, i + 1, 0, 0, 0 >>)]
\* pd.date_range(start='2026-01-01', periods=n): midnight of n days running.
date_range(n) == [i \in 1..n |-> Datetime(<< 2026, 1, i, 0, 0, 0 >>)]

\* pd.to_datetime of one value: a timestamp text parses, a missing value
\* is NaT, a datetime is kept, any other text raises.
to_datetime(v) ==
    IF v.t = "tsstr" THEN Datetime(v.dt)
    ELSE IF v.t = "datetime" THEN v
    ELSE IF IsNaN(v) \/ v = None THEN NaT
    ELSE Raised

\* history_df.get('timestamp', <default>): the column, or the default when
\* the frame has no such column.
timestamp_or_default(h) ==
    IF "timestamp" \in Range(h.cols)
    THEN [i \in 1..Len(h.rows) |-> h.rows[i]["timestamp"]]
    ELSE date_range(Len(h.rows))

\* a < b on datetimes: the first field that differs decides.
DtLess(a, b) ==
    \E k \in 1..6 : a[k] < b[k] /\ \A j \in 1..(k - 1) : a[j] = b[j]

\* Whether the row at position j sorts before the row at position i:
\* ascending, NaT last; rows of equal timestamp in either order, as the
\* default sort (quicksort) is not stable.
Before(ts, j, i, ties) ==
    LET tie == IF ties = "kept" THEN j < i ELSE j > i
    IN IF ts[j] = NaT THEN ts[i] = NaT /\ tie
       ELSE IF ts[i] = NaT THEN TRUE
       ELSE DtLess(ts[j].dt, ts[i].dt) \/ (ts[j].dt = ts[i].dt /\ tie)

\* The positions of the window in sorted order.
SortedPositions(ts, ties) ==
    LET n == Len(ts)
        rank == << >> \o [i \in 1..n |->
                   Cardinality({ j \in 1..n : j # i /\ Before(ts, j, i, ties) })]
    IN << >> \o [r \in 1..n |-> CHOOSE i \in 1..n : rank[i] = r - 1]

\* history_df['timestamp'] = <the parsed timestamps>: the column is
\* replaced, or added as the last one.
with_timestamp(h, ts) ==
    [cols |-> IF "timestamp" \in Range(h.cols) THEN h.cols
              ELSE h.cols \o << "timestamp" >>,
     index |-> h.index,
     rows |-> [r \in 1..Len(h.rows) |->
                 IF "timestamp" \in DOMAIN h.rows[r]
                 THEN [h.rows[r] EXCEPT !["timestamp"] = ts[r]]
                 ELSE h.rows[r] @@ ("timestamp" :> ts[r])]]

\* history_df.sort_values('timestamp')
sort_values(h, ties) ==
    LET pos == SortedPositions([r \in 1..Len(h.rows) |-> h.rows[r]["timestamp"]], ties)
    IN [cols |-> h.cols,
        index |-> [r \in 1..Len(pos) |-> h.index[pos[r]]],
        rows |-> [r \in 1..Len(pos) |-> h.rows[pos[r]]]]

\* .dt.strftime('%m-%d %H:%M'): month, day, hour, minute; NaT gives nan.
strftime_label(x) ==
    IF x = NaT THEN NaN ELSE LabelStr(<< x.dt[2], x.dt[3], x.dt[4], x.dt[5] >>)

Column(h, c) == [r \in 1..Len(h.rows) |-> safe_float(h.rows[r][c])]

\* The placeholder with sustainability 0.
no_data_all_zero ==
    [labels |-> << Str("No data") >>, time_poverty |-> << Num(0) >>,
     work_imbalance |-> << Num(0) >>, mental_strain |-> << Num(0) >>,
     recovery_deficit |-> << Num(0) >>, sustainability |-> << Num(0) >>,
     burnout_risk |-> << Num(0) >>]
\* The placeholder of lines 141-149 and 151-159.
no_data ==
    [labels |-> << Str("No data") >>, time_poverty |-> << Num(0) >>,
     work_imbalance |-> << Num(0) >>, mental_strain |-> << Num(0) >>,
     recovery_deficit |-> << Num(0) >>, sustainability |-> << Num(100) >>,
     burnout_risk |-> << Num(0) >>]

\* Lines 126-129: None when the try block raises before the sort is done.
history_frame(df, ties) ==
    LET h == tail(df)
        col == timestamp_or_default(h)
        ts == << >> \o [i \in 1..Len(h.rows) |-> to_datetime(col[i])]
    IN IF \E i \in 1..Len(ts) : ts[i] = Raised THEN None
       ELSE sort_values(with_timestamp(h, ts), ties)

\* Lines 125-159, s being the sorted history_df (None when there is none).
history_data(df, s) ==
    IF Len(df.rows) = 0 THEN no_data
    ELSE IF s = None THEN no_data
    ELSE IF ~(Range(metric_cols) \subseteq Range(s.cols)) THEN no_data
    ELSE [labels |-> [r \in 1..Len(s.rows) |-> strftime_label(s.rows[r]["timestamp"])],
          time_poverty |-> Column(s, "time_poverty_index"),
          work_imbalance |-> Column(s, "work_imbalance"),
          mental_strain |-> Column(s, "mental_strain"),
          recovery_deficit |-> Column(s, "recovery_deficit_score"),
          sustainability |-> Column(s, "sustainability_score"),
          burnout_risk |-> Column(s, "burnout_risk")]

\* Lines 114-122.
latest(df) ==
    IF Len(df.rows) = 0 THEN [c \in Range(metric_cols) |-> Num(0)]
    ELSE LET latest_row == df.rows[Len(df.rows)]
         IN [c \in Range(metric_cols) |->
               safe_float(IF c \in DOMAIN latest_row THEN latest_row[c] ELSE Num(0))]


(***************************************************************************)
(* State.                                                                  *)
(*                                                                         *)
(* The server handles each request on a thread of its own.  index() runs   *)
(* in two steps, its read of the file and its write; its locals between    *)
(* the two are held per thread, and at most two run at a time.  The other  *)
(* handlers touch the file at most once and run in one step.               *)
(* The variable returned holds the handler call                            *)
(* that returned last: its request, its response and its locals at the     *)
(* return.  The history variables record what has happened and are read by *)
(* no action's guard or result.                                            *)
(***************************************************************************)
VARIABLES
    running,      \* the process is up: the module has been loaded
    file,         \* the backing file FILE_PATH
    pc,           \* per thread: "idle", or "post_write" (index() between its
                  \* read and its write)
    data,         \* per thread: index()'s local data
    df,           \* per thread: index()'s local df as read
    nposts,       \* POST requests received
    returned,     \* the handler call that returned last
    readok,       \* history, per thread: its read of the file succeeded
    seen,         \* history, per thread: Len(accepted) when it read the file
    stale,        \* history, per thread: another thread has written the file
                  \* since this thread read it
    accepted,     \* history: the rows of the POSTs completed, in order
    raced,        \* history: some POST wrote from a stale read
    readfailed,   \* history: some POST's read of an existing file failed
    fresh         \* history: the store held no row when the model starts

vars == << running, file, pc, data, df, nposts, returned,
           readok, seen, stale, accepted, raced, readfailed, fresh >>

Threads == {1, 2}

MaxPosts == 2
MaxViewPosts == 1
BigRows == 20
LegacyRows == 3
MaxEdits == 2

(***************************************************************************)
(* Inputs.                                                                 *)
(***************************************************************************)
\* request.form: the fields the client sent, each a str.
ExampleForm ==
    [c \in numeric_cols \cup {"motivation"} |->
        CASE c = "planned_study_time" -> Str("8")
          [] c = "actual_study_time" -> Str("5")
          [] c = "active_tasks" -> Str("3")
          [] c = "deadlines" -> Str("2")
          [] c = "context_switches" -> Str("1")
          [] c = "stress" -> Str("4")
          [] c = "fatigue" -> Str("3")
          [] c = "exhaustion" -> Str("2")
          [] c = "sleep_duration" -> Str("6")
          [] c = "micro_breaks" -> Str("1")
          [] c = "motivation" -> Str("high")]

EmptyForm == [c \in {} |-> Str("")]

\* A form whose four intermediate sums are all zero.
ZeroForm == [c \in {"sleep_duration", "micro_breaks"} |->
               IF c = "sleep_duration" THEN Str("8") ELSE Str("3")]

StoreForms == { ExampleForm, EmptyForm }

\* The raw texts a numeric field is given; None stands for a field the
\* client did not send.
RawValues ==
    { Str("nan"), Str("NaN"), Str("inf"), Str("-inf"), Str("abc"),
      Str("-2"), Str("2.5"), Str("200"), None }

Edits ==
    UNION { [S -> RawValues] :
            S \in { T \in SUBSET numeric_cols : Cardinality(T) <= MaxEdits } }

Edited(base, e) ==
    [c \in { k \in DOMAIN base \cup DOMAIN e :
               IF k \in DOMAIN e THEN e[k] # None ELSE TRUE } |->
        IF c \in DOMAIN e THEN e[c] ELSE base[c]]

CalcForms == { Edited(b, e) : b \in { ExampleForm, EmptyForm, ZeroForm }, e \in Edits }

\* datetime.now(): local wall-clock time, which may step backwards.
Times == { << 2026, 1, 2, 12, 1, 30 >>, << 2025, 12, 31, 23, 59, 0 >> }

\* A store left by earlier runs of the program: BigRows submissions.
StoredForm(k) == [ExampleForm EXCEPT !["stress"] = Str(IF k % 2 = 0 THEN "2" ELSE "2.5")]
StoredTime(k) == << 2026, 1, 1 + ((k * 3) % 4), 12, k % 3, 0 >>

\* index(), lines 82-91: the dict handed to the store.
collect(form, now) ==
    calculate_metrics(
        [c \in Range(input_cols) \cup {"timestamp"} |->
            IF c = "timestamp" THEN TsStr(now)
            ELSE IF c \in DOMAIN form THEN form[c] ELSE Str("")])

\* The frame written as it was read.
append_unconcatenated(frame, row) == to_excel(frame)
\* index(), lines 99-101.
append(frame, row) == to_excel(pd_concat(frame, row))

\* The file after the first k of those submissions, one after the other,
\* every read succeeding: the header a first append leaves, and their rows.
Stored(k) ==
    LET cols == all_cols \o << "timestamp" >>
    IN IF k = 0 THEN to_excel(EmptyFrame)
       ELSE [exists |-> TRUE, cols |-> cols,
             rows |-> [i \in 1..k |->
                         WriteRow(cols, collect(StoredForm(i), StoredTime(i)))]]

BigFile == Stored(BigRows)

\* A store whose rows carry no timestamp column.
LegacyFile ==
    [exists |-> TRUE, cols |-> all_cols,
     rows |-> [k \in 1..LegacyRows |->
                 WriteRow(all_cols,
                          calculate_metrics([ExampleForm EXCEPT !["stress"] = Num(k)]))]]

\* A store whose timestamp cells were overwritten with text that is no date.
MalformedFile ==
    [Stored(2) EXCEPT !.rows = [k \in 1..2 |->
        [Stored(2).rows[k] EXCEPT !["timestamp"] = Str("yesterday")]]]

\* A first start, and a start on the header-only file of an earlier one.
InitFiles == { NoFile, to_excel(EmptyFrame) }

Nothing == [req |-> "none"]

InitThreads ==
    /\ pc = [t \in Threads |-> "idle"]
    /\ data = [t \in Threads |-> None]
    /\ df = [t \in Threads |-> None]
    /\ readok = [t \in Threads |-> FALSE]
    /\ seen = [t \in Threads |-> 0]
    /\ stale = [t \in Threads |-> FALSE]

Init ==
    /\ running = FALSE
    /\ file \in InitFiles
    /\ InitThreads
    /\ nposts = 0
    /\ returned = Nothing
    /\ accepted = << >>
    /\ raced = FALSE
    /\ readfailed = FALSE
    /\ fresh = (Len(file.rows) = 0)

(***************************************************************************)
(* Actions.                                                                *)
(***************************************************************************)
\* A request is handed to the first thread that is idle.
Free(t) ==
    /\ running
    /\ pc[t] = "idle"
    /\ \A u \in Threads : u < t => pc[u] # "idle"

\* Lines 6-27: the process starts and the module is loaded.
ModuleInit ==
    /\ ~running
    /\ running' = TRUE
    /\ file' = create_if_absent(file)
    /\ UNCHANGED << pc, data, df, nposts, returned, readok, seen, stale,
                    accepted,
                    raced, readfailed, fresh >>

\* Line 164: app.run() ends and the process with it, no request running.
Exit ==
    /\ running
    /\ \A t \in Threads : pc[t] = "idle"
    /\ running' = FALSE
    /\ returned' = Nothing
    /\ UNCHANGED << file, pc, data, df, nposts, readok, seen, stale, accepted,
                    raced, readfailed, fresh >>

\* GET /, line 105.
IndexGet ==
    /\ running
    /\ returned' = [req |-> "GET /", resp |-> [template |-> "index.html"]]
    /\ UNCHANGED << running, file, pc, data, df, nposts, readok, seen, stale,
                    accepted, raced, readfailed, fresh >>

\* POST /, lines 80-97: the form is collected, the metrics are calculated
\* and the file is read.
PostRead(t, form, now, readable, cap) ==
    /\ Free(t)
    /\ nposts < cap
    /\ nposts' = nposts + 1
    /\ pc' = [pc EXCEPT ![t] = "post_write"]
    /\ data' = [data EXCEPT ![t] = collect(form, now)]
    /\ df' = [df EXCEPT ![t] = read_table(file, readable)]
    /\ readok' = [readok EXCEPT ![t] = file.exists /\ readable]
    /\ seen' = [seen EXCEPT ![t] = Len(accepted)]
    /\ stale' = [stale EXCEPT ![t] = FALSE]
    /\ readfailed' = (readfailed \/ (file.exists /\ ~readable))
    /\ UNCHANGED << running, file, returned, accepted, raced, fresh >>

\* POST /, lines 99-103: the row is appended, the file is rewritten and the
\* client is redirected.
PostWrite(t) ==
    /\ pc[t] = "post_write"
    /\ file' = append(df[t], data[t])
    /\ returned' = [req |-> "POST /",
                    resp |-> [status |-> 302, location |-> "/metrics"],
                    data |-> data[t], df |-> df[t],
                    readok |-> readok[t], seen |-> seen[t], stale |-> stale[t]]
    /\ pc' = [pc EXCEPT ![t] = "idle"]
    /\ data' = [data EXCEPT ![t] = None]
    /\ df' = [df EXCEPT ![t] = None]
    /\ readok' = [readok EXCEPT ![t] = FALSE]
    /\ seen' = [seen EXCEPT ![t] = 0]
    /\ stale' = [u \in Threads |-> u # t /\ pc[u] = "post_write"]
    /\ accepted' = Append(accepted, data[t])
    /\ raced' = (raced \/ stale[t])
    /\ UNCHANGED << running, nposts, readfailed, fresh >>

\* GET /metrics, lines 109-161.
Metrics(readable, ties) ==
    /\ running
    /\ LET d == read_table(file, readable)
           s == IF Len(d.rows) = 0 THEN None ELSE history_frame(d, ties)
       IN returned' = [req |-> "GET /metrics",
                       resp |-> [template |-> "metrics.html",
                                 metrics |-> latest(d),
                                 history |-> history_data(d, s)],
                       df |-> d, history_df |-> s,
                       readok |-> file.exists /\ readable,
                       seen |-> Len(accepted)]
    /\ UNCHANGED << running, file, pc, data, df, nposts, readok, seen, stale,
                    accepted, raced, readfailed, fresh >>

Next ==
    \/ ModuleInit
    \/ Exit
    \/ IndexGet
    \/ \E t \in Threads, form \in StoreForms, now \in Times, readable \in BOOLEAN :
          PostRead(t, form, now, readable, MaxPosts)
    \/ \E t \in Threads : PostWrite(t)
    \/ \E readable \in BOOLEAN, ties \in {"kept", "reversed"} :
          Metrics(readable, ties)

Spec == Init /\ [][Next]_vars

(***************************************************************************)
(* The same program started on the stores the view handler tells apart:    *)
(* header-only, without a timestamp column, with timestamp cells that are  *)
(* no dates, and filled by earlier runs up to the history window.          *)
(***************************************************************************)
ViewFiles ==
    { to_excel(EmptyFrame), LegacyFile, MalformedFile, Stored(BigRows - 1), BigFile }

InitView ==
    /\ running = FALSE
    /\ file \in ViewFiles
    /\ InitThreads
    /\ nposts = 0
    /\ returned = Nothing
    /\ accepted = << >>
    /\ raced = FALSE
    /\ readfailed = FALSE
    /\ fresh = (Len(file.rows) = 0)

NextView ==
    \/ ModuleInit
    \/ Exit
    \/ IndexGet
    \/ \E t \in Threads, form \in StoreForms, now \in Times, readable \in BOOLEAN :
          PostRead(t, form, now, readable, MaxViewPosts)
    \/ \E t \in Threads : PostWrite(t)
    \/ \E readable \in BOOLEAN, ties \in {"kept", "reversed"} :
          Metrics(readable, ties)

SpecView == InitView /\ [][NextView]_vars

(***************************************************************************)
(* The metric calculator alone: one submission, its form drawn from        *)
(* CalcForms, on a running process with a header-only store.               *)
(***************************************************************************)
InitCalc ==
    /\ running = TRUE
    /\ file = to_excel(EmptyFrame)
    /\ InitThreads
    /\ nposts = 0
    /\ returned = Nothing
    /\ accepted = << >>
    /\ raced = FALSE
    /\ readfailed = FALSE
    /\ fresh = TRUE

CalcTime == << 2026, 1, 2, 12, 1, 30 >>

NextCalc ==
    /\ nposts = 0
    /\ \E form \in CalcForms : PostRead(1, form, CalcTime, TRUE, 1)

SpecCalc == InitCalc /\ [][NextCalc]_vars


(***************************************************************************)
(* Properties.                                                             *)
(***************************************************************************)
\* A row as to_excel leaves it under the file's header.
Written(row) ==
    [c \in Range(file.cols) |-> IF c \in DOMAIN row THEN WriteCell(row[c]) ELSE EmptyCell]

\* The submissions so far were sequential and successful, on a store that
\* started without rows: no POST wrote from a stale read, and every POST's
\* read of the file succeeded.
Sequential == fresh /\ ~raced /\ ~readfailed

ViewReturned == returned.req = "GET /metrics"
PostReturned == returned.req = "POST /"

\* C1: from a header-only store, after N sequential successful POSTs the
\* file holds exactly their N rows in submission order, and a GET /metrics
\* that read the file after k of them sees exactly those k rows, in order.
C1_AppendMonotonic ==
    Sequential =>
        /\ Len(file.rows) = Len(accepted)
        /\ \A i \in 1..Len(accepted) : file.rows[i] = Written(accepted[i])
        /\ (ViewReturned /\ returned.readok) =>
              /\ Len(returned.df.rows) = returned.seen
              /\ \A i \in 1..returned.seen :
                   \A c \in DOMAIN accepted[i] :
                      returned.df.rows[i][c] = ReadCell(WriteCell(accepted[i][c]))

C1_Witness ==
    /\ Sequential
    /\ Len(accepted) = 2
    /\ accepted[1] # accepted[2]
    /\ ViewReturned /\ returned.readok /\ returned.seen = 2

\* C2: no step removes or changes a row of the backing file, POSTs whose
\* read of the file fails included (steps of overlapping POSTs set aside).
C2_RowsNeverRemoved ==
    [][(file.exists /\ ~raced') =>
          /\ file'.exists
          /\ Len(file'.rows) >= Len(file.rows)
          /\ \A i \in 1..Len(file.rows) : \A c \in Range(file.cols) :
                c \in Range(file'.cols) /\ file'.rows[i][c] = file.rows[i][c]]_vars

\* C3: a POST that wrote from a stale read (another POST wrote between its
\* read and its write) leaves the file as its own snapshot plus its own
\* row: at least two POSTs completed since that snapshot, and the file is
\* one row longer than it.
C3_LostUpdate ==
    (PostReturned /\ returned.stale) =>
        LET snap == returned.df.rows
        IN /\ Len(accepted) - returned.seen >= 2
           /\ Len(file.rows) = Len(snap) + 1
           /\ file.rows[Len(snap) + 1] = Written(returned.data)
           /\ \A i \in 1..Len(snap) : file.rows[i] = Written(snap[i])

C3_Witness ==
    /\ PostReturned /\ returned.stale /\ returned.readok
    /\ fresh /\ ~readfailed
    /\ Len(accepted) = 2
    /\ accepted[1] # accepted[2]
    /\ Len(file.rows) = 1

\* C4: loading the module creates a header-only file (input_cols then
\* metric_cols) when the file does not exist, and leaves an existing file
\* as it is, however often it happens.
C4_InitializeIdempotent ==
    [][(~running /\ running') =>
          IF file.exists THEN file' = file
          ELSE file' = [exists |-> TRUE, cols |-> input_cols \o metric_cols, rows |-> << >>]]_vars

\* The module has just been loaded again over rows an earlier run appended.
C4_Witness ==
    /\ running
    /\ returned = Nothing
    /\ Len(accepted) > 0
    /\ Len(file.rows) > 0

\* The rows metrics() took for the history, in file order.
WindowOf(d) ==
    LET n == Len(d.rows)
    IN SubSeq(d.rows, IF n > 20 THEN n - 19 ELSE 1, n)

SyntheticHistory(d) ==
    LET w == WindowOf(d)
        h == returned.resp.history
        col(a, c) == /\ Len(a) = Len(w)
                     /\ \A i \in 1..Len(w) : IsFloat(w[i][c]) => a[i] = w[i][c]
    IN /\ Len(h.labels) = Len(w)
       /\ \A i \in 1..Len(w) : h.labels[i] = LabelStr(<< 1, i, 0, 0 >>)
       /\ col(h.time_poverty, "time_poverty_index")
       /\ col(h.work_imbalance, "work_imbalance")
       /\ col(h.mental_strain, "mental_strain")
       /\ col(h.recovery_deficit, "recovery_deficit_score")
       /\ col(h.sustainability, "sustainability_score")
       /\ col(h.burnout_risk, "burnout_risk")

PlaceholderHistory ==
    returned.resp.history =
        [labels |-> << Str("No data") >>, time_poverty |-> << Num(0) >>,
         work_imbalance |-> << Num(0) >>, mental_strain |-> << Num(0) >>,
         recovery_deficit |-> << Num(0) >>, sustainability |-> << Num(100) >>,
         burnout_risk |-> << Num(0) >>]

NoTimestampColumn(d) == "timestamp" \notin Range(d.cols)

\* Every row of the window has a timestamp cell holding text that is no date.
TimestampsMalformed(d) ==
    /\ ~NoTimestampColumn(d)
    /\ \A i \in 1..Len(WindowOf(d)) : WindowOf(d)[i]["timestamp"].t = "str"

C6_EmptyStorePlaceholder ==
    (ViewReturned /\ (~returned.readok \/ Len(returned.df.rows) = 0)) =>
        /\ returned.resp.template = "metrics.html"
        /\ returned.resp.metrics = [c \in Range(metric_cols) |-> Num(0)]
        /\ PlaceholderHistory

C6_Witness ==
    /\ ViewReturned
    /\ ~returned.readok
    /\ Len(file.rows) > 0


\* index() has calculated the metrics of thread t's submission.
Calculated(t) == pc[t] = "post_write"

AllFinite(d) == \A c \in numeric_cols : IsFinite(d[c])

Max0(k) == IF k > 0 THEN k ELSE 0

ExampleInputs(d) ==
    /\ d["planned_study_time"] = Num(8) /\ d["actual_study_time"] = Num(5)
    /\ d["active_tasks"] = Num(3) /\ d["deadlines"] = Num(2)
    /\ d["context_switches"] = Num(1) /\ d["stress"] = Num(4)
    /\ d["fatigue"] = Num(3) /\ d["exhaustion"] = Num(2)
    /\ d["sleep_duration"] = Num(6) /\ d["micro_breaks"] = Num(1)

\* C7: calculate_metrics returns the four intermediate sums as the formulas
\* give them and burnout_risk as exactly a quarter of their total (zero and
\* negative totals included); the example 8, 5, 3, 2, 1, 4, 3, 2, 6, 1
\* gives 3, 6, 9, 4, 78 and 5.5.  Numbers are in eighths.
C7_Formulas ==
    \A t \in Threads : Calculated(t) =>
        LET d == data[t]
            tpi == d["time_poverty_index"]
            wi == d["work_imbalance"]
            ms == d["mental_strain"]
            rd == d["recovery_deficit_score"]
            br == d["burnout_risk"]
            total == FAdd(FAdd(FAdd(tpi, wi), ms), rd)
        IN /\ tpi = FSub(d["planned_study_time"], d["actual_study_time"])
           /\ wi = FAdd(FAdd(d["active_tasks"], d["deadlines"]), d["context_switches"])
           /\ ms = FAdd(FAdd(d["stress"], d["fatigue"]), d["exhaustion"])
           /\ IF IsFinite(total) THEN IsFinite(br) /\ 4 * br.v = total.v ELSE br = total
           /\ AllFinite(d) =>
                /\ tpi.v = d["planned_study_time"].v - d["actual_study_time"].v
                /\ wi.v = d["active_tasks"].v + d["deadlines"].v + d["context_switches"].v
                /\ ms.v = d["stress"].v + d["fatigue"].v + d["exhaustion"].v
                /\ rd.v = Max0(64 - d["sleep_duration"].v) + Max0(24 - d["micro_breaks"].v)
                /\ 4 * br.v = tpi.v + wi.v + ms.v + rd.v
           /\ ExampleInputs(d) =>
                /\ tpi = Num(3) /\ wi = Num(6) /\ ms = Num(9) /\ rd = Num(4)
                /\ d["sustainability_score"] = Num(78)
                /\ br = Fin(44)

C7_Witness ==
    /\ Calculated(1)
    /\ ExampleInputs(data[1])
    /\ data[1]["burnout_risk"] = Fin(44)

\* C8: after calculate_metrics each of the ten numeric inputs and the six
\* metrics is a finite float, whatever the raw values were.
C8_AlwaysFinite ==
    \A t \in Threads : Calculated(t) =>
        \A c \in numeric_cols \cup Range(metric_cols) : IsFinite(data[t][c])

\* C9: sustainability_score >= 0 and recovery_deficit_score >= 0 for every
\* input, negative inputs and actual above planned included.
C9_Clamped ==
    \A t \in Threads : Calculated(t) =>
        /\ FGe(data[t]["sustainability_score"], Num(0))
        /\ FGe(data[t]["recovery_deficit_score"], Num(0))

C9_Witness ==
    /\ Calculated(1)
    /\ data[1]["sleep_duration"] = Num(-2)
    /\ IsFinite(data[1]["time_poverty_index"])
    /\ data[1]["time_poverty_index"].v < 0

\* Every row of the window carries a timestamp as index() writes it.
TimestampsParsable(d) ==
    /\ ~NoTimestampColumn(d)
    /\ \A i \in 1..Len(WindowOf(d)) : WindowOf(d)[i]["timestamp"].t = "tsstr"

\* C10: with R >= 1 rows of parsable timestamps the history covers exactly
\* the last min(R, 20) rows, in ascending timestamp order; the labels and
\* the six arrays have that length and entry i of each comes from the same
\* row; latest is the last row in file order.
C10_HistoryWindow ==
    (ViewReturned /\ Len(returned.df.rows) >= 1 /\ TimestampsParsable(returned.df)) =>
        LET d == returned.df
            R == Len(d.rows)
            n == IF R < 20 THEN R ELSE 20
            idx == returned.history_df.index
            h == returned.resp.history
            row(i) == d.rows[idx[i] + 1]
            col(a, c) == /\ Len(a) = n
                         /\ \A i \in 1..n : IsFloat(row(i)[c]) => a[i] = row(i)[c]
        IN /\ Len(idx) = n
           /\ { idx[i] : i \in 1..n } = (R - n)..(R - 1)
           /\ \A i \in 1..(n - 1) :
                 ~DtLess(row(i + 1)["timestamp"].dt, row(i)["timestamp"].dt)
           /\ Len(h.labels) = n
           /\ \A i \in 1..n :
                 LET dt == row(i)["timestamp"].dt
                 IN h.labels[i] = LabelStr(<< dt[2], dt[3], dt[4], dt[5] >>)
           /\ col(h.time_poverty, "time_poverty_index")
           /\ col(h.work_imbalance, "work_imbalance")
           /\ col(h.mental_strain, "mental_strain")
           /\ col(h.recovery_deficit, "recovery_deficit_score")
           /\ col(h.sustainability, "sustainability_score")
           /\ col(h.burnout_risk, "burnout_risk")
           /\ \A c \in Range(metric_cols) :
                 IsFloat(d.rows[R][c]) => returned.resp.metrics[c] = d.rows[R][c]

\* More than twenty rows, charted in another order than stored, the last
\* row of the file not the latest by timestamp.
C10_Witness ==
    /\ ViewReturned /\ returned.readok
    /\ Len(returned.df.rows) > 20
    /\ TimestampsParsable(returned.df)
    /\ Len(returned.resp.history.labels) = 20
    /\ \E i \in 1..19 : returned.history_df.index[i] > returned.history_df.index[i + 1]
    /\ returned.history_df.index[20] # Len(returned.df.rows) - 1

====
